---------------------------- MODULE Spec2Model ----------------------------
(***************************************************************************)
(* Model of feedbin_archiver.py: the Rules store (add_rules, max_age,      *)
(* keep_n, uses_keep_n, uses_max_age, validate_rules), run_archive and the *)
(* "run" action of the program with its exit codes.                        *)
(*                                                                         *)
(* Encodings                                                               *)
(*   - a Python value that may be None is a sequence of length <= 1:       *)
(*     <<>> is None, <<x>> is x;                                           *)
(*   - a string is a sequence of one-character strings, so "" is <<>>      *)
(*     and the optional string "" is << <<>> >>;                           *)
(*   - a dict is the sequence of its [k, v] items in insertion order;      *)
(*   - a JSON value handed to int() is a record [t, v]: t = "int" is a     *)
(*     number v, t = "bad" a value int() raises ValueError on, and         *)
(*     t = "absent" says that the key is not in the enclosing object;      *)
(*   - a timedelta or datetime is a number of ticks, TicksPerDay a day.    *)
(***************************************************************************)
EXTENDS Integers, Sequences, FiniteSets, TLC

VARIABLES
    default_max_age,            \* Rules.default_max_age
    only_feed_id,               \* Rules.only_feed_id (optional int)
    feed_rules,                 \* Rules.feed_rules: feed id -> max_age
    keep_n_rules,               \* Rules.keep_n_rules: feed id -> keep_n
    title_regex_rules,          \* Rules.title_regex_rules: pattern -> max_age
    title_regex_keep_n_rules,   \* Rules.title_regex_keep_n_rules: pattern -> keep_n
    pc,                         \* the call that completed last
    rules_dict,                 \* argument of the last add_rules call (optional)
    raised,                     \* exception the last call ended with, or "none"
    raised_ids,                 \* feed ids named by the last ValidationException
    feeds,                      \* argument of the last validate_rules call
    unread_entries,             \* what get_unread_entries() returned to run_archive
    feeds_by_id,                \* run_archive's feeds_by_id: feed id -> title
    now,                        \* run_archive's now
    dry_run,                    \* run_archive's dry_run argument
    decisions,                  \* per traversed entry: what the loop body decided
    marked,                     \* entry ids passed to feedbin_api.mark_read, in order
    count,                      \* run_archive's count
    exit_code,                  \* status the program exited with (optional)
    ignore_rules_validation,    \* args.ignore_rules_validation
    calls                       \* the calls made so far, each with its rule file

store_vars == <<default_max_age, only_feed_id, feed_rules, keep_n_rules,
                title_regex_rules, title_regex_keep_n_rules>>
archive_vars == <<unread_entries, feeds_by_id, now, dry_run, decisions, marked, count>>
main_vars == <<exit_code, ignore_rules_validation>>
vars == <<store_vars, pc, rules_dict, raised, raised_ids, feeds, archive_vars,
          main_vars, calls>>

---------------------------------------------------------------------------
(* Python values                                                           *)

None == <<>>
Some(x) == <<x>>
IsNone(o) == Len(o) = 0
Val(o) == o[1]

Absent == [t |-> "absent", v |-> 0]
IntV(n) == [t |-> "int", v |-> n]
Bad == [t |-> "bad", v |-> 0]

\* `key in obj`
Has(raw) == raw.t # "absent"

\* int(x) raises ValueError on a value that is not a number
IntRaises(raw) == raw.t = "bad"
PyInt(raw) == raw.v

PyMaxOfList(list) ==
    CHOOSE x \in {list[i] : i \in 1..Len(list)} : \A i \in 1..Len(list) : list[i] <= x

\* min(list) of a non-empty list of ints
RECURSIVE PyMinFrom(_, _, _)
PyMinFrom(list, i, best) ==
    IF i > Len(list) THEN best
    ELSE PyMinFrom(list, i + 1, IF list[i] < best THEN list[i] ELSE best)

PyMin(list) == PyMinFrom(list, 2, list[1])

\* d[k] = v on an insertion-ordered dict
DictHas(d, k) == \E i \in 1..Len(d) : d[i].k = k
DictGet(d, k) == d[CHOOSE i \in 1..Len(d) : d[i].k = k].v
DictSetDefault(d, k, v) ==
    IF DictHas(d, k) THEN d ELSE Append(d, [k |-> k, v |-> v])
DictSet(d, k, v) ==
    IF DictHas(d, k)
    THEN [i \in 1..Len(d) |-> IF d[i].k = k THEN [k |-> k, v |-> v] ELSE d[i]]
    ELSE Append(d, [k |-> k, v |-> v])
DictKeys(d) == [i \in 1..Len(d) |-> d[i].k]

---------------------------------------------------------------------------
(* Regular expressions.  Patterns and titles are strings over the alphabet *)
(* {a, b, [}.  Over this alphabet a pattern compiles iff it has no "["     *)
(* (an unterminated character set), and a pattern that compiles is a       *)
(* literal, which re.search finds iff it occurs as a substring.            *)

re_compile_raises(pattern) == \E i \in 1..Len(pattern) : pattern[i] = "["

re_search(pattern, string) ==
    \E s \in 0..(Len(string) - Len(pattern)) :
        \A j \in 1..Len(pattern) : string[s + j] = pattern[j]

\* `if feed_title:` is false for None and for ""
Truthy(feed_title) == ~IsNone(feed_title) /\ Len(Val(feed_title)) > 0

---------------------------------------------------------------------------
(* Rules.add_rules.  A store `st` carries the fields of a Rules object and *)
(* `exc`, the exception raised so far by the call working on it.           *)

StoreOf(dma, only, fr, kn, tr, tk) ==
    [default_max_age |-> dma, only_feed_id |-> only, feed_rules |-> fr,
     keep_n_rules |-> kn, title_regex_rules |-> tr,
     title_regex_keep_n_rules |-> tk, exc |-> "none"]

Raise(st, e) == [st EXCEPT !.exc = e]

\* lines 172-173
SetDefaultMaxAge(st, d) ==
    IF ~Has(d.max_age) THEN st
    ELSE IF IntRaises(d.max_age) THEN Raise(st, "ValueError")
    ELSE [st EXCEPT !.default_max_age = PyInt(d.max_age)]

\* lines 194-197 and 230-233: the two assignments of one rule, max_age first
AssignRule(st, maxField, keepField, key, rule) ==
    LET s1 == IF ~Has(rule.max_age) THEN st
              ELSE IF IntRaises(rule.max_age) THEN Raise(st, "ValueError")
              ELSE [st EXCEPT ![maxField] = DictSet(@, key, PyInt(rule.max_age))]
    IN  IF s1.exc # "none" \/ ~Has(rule.keep_n) THEN s1
        ELSE IF IntRaises(rule.keep_n) THEN Raise(s1, "ValueError")
        ELSE [s1 EXCEPT ![keepField] = DictSet(@, key, PyInt(rule.keep_n))]

\* lines 178-197: one iteration of the feed_specific loop
AddFeedRule(st, rule) ==
    IF ~Has(rule.feed_id) THEN Raise(st, "SpecException")
    ELSE IF ~Has(rule.max_age) /\ ~Has(rule.keep_n) THEN Raise(st, "SpecException")
    ELSE IF IntRaises(rule.feed_id) THEN Raise(st, "ValueError")
    ELSE AssignRule(st, "feed_rules", "keep_n_rules", PyInt(rule.feed_id), rule)

AddTitleRuleUncompiled(st, rule) ==
    IF IsNone(rule.title_regex) THEN Raise(st, "SpecException")
    ELSE IF ~Has(rule.max_age) /\ ~Has(rule.keep_n) THEN Raise(st, "SpecException")
    ELSE AssignRule(st, "title_regex_rules", "title_regex_keep_n_rules",
                    Val(rule.title_regex), rule)

\* lines 202-233: one iteration of the title_regex loop
AddTitleRule(st, rule) ==
    IF IsNone(rule.title_regex) THEN Raise(st, "SpecException")
    ELSE IF ~Has(rule.max_age) /\ ~Has(rule.keep_n) THEN Raise(st, "SpecException")
    ELSE IF re_compile_raises(Val(rule.title_regex)) THEN Raise(st, "SpecException")
    ELSE AssignRule(st, "title_regex_rules", "title_regex_keep_n_rules",
                    Val(rule.title_regex), rule)

RECURSIVE FeedLoop(_, _, _)
FeedLoop(st, list, i) ==
    IF i > Len(list) \/ st.exc # "none" THEN st
    ELSE FeedLoop(AddFeedRule(st, list[i]), list, i + 1)

RECURSIVE TitleLoop(_, _, _)
TitleLoop(st, list, i) ==
    IF i > Len(list) \/ st.exc # "none" THEN st
    ELSE TitleLoop(AddTitleRule(st, list[i]), list, i + 1)

\* lines 171-239: the store add_rules leaves, and the exception it ends with
AddRulesResult(st, d) ==
    LET s1 == SetDefaultMaxAge(st, d)
        s2 == IF s1.exc # "none" \/ IsNone(d.feed_specific) THEN s1
              ELSE FeedLoop(s1, Val(d.feed_specific), 1)
        s3 == IF s2.exc # "none" \/ IsNone(d.title_regex) THEN s2
              ELSE TitleLoop(s2, Val(d.title_regex), 1)
    IN  IF s3.exc = "none" /\ IsNone(d.feed_specific) /\ IsNone(d.title_regex)
        THEN Raise(s3, "SpecException")
        ELSE s3

\* the Rules object of the current state
self ==
    StoreOf(default_max_age, only_feed_id, feed_rules, keep_n_rules,
            title_regex_rules, title_regex_keep_n_rules)

add_rules(d) ==
    LET st == AddRulesResult(self, d)
    IN  /\ default_max_age' = st.default_max_age
        /\ feed_rules' = st.feed_rules
        /\ keep_n_rules' = st.keep_n_rules
        /\ title_regex_rules' = st.title_regex_rules
        /\ title_regex_keep_n_rules' = st.title_regex_keep_n_rules
        /\ raised' = st.exc
        /\ rules_dict' = Some(d)
        /\ pc' = "add_rules"
        /\ UNCHANGED <<only_feed_id, raised_ids, feeds, archive_vars>>

---------------------------------------------------------------------------
(* Rules.max_age, keep_n, uses_keep_n, uses_max_age.  `rules` is a Rules   *)
(* object, feed_title an optional string.  A timedelta is in ticks.        *)

TicksPerDay == 2
TimedeltaMaxDays == 999999999

\* dt.timedelta.max: 999999999 days and the last tick of the following day
TimedeltaMax == TimedeltaMaxDays * TicksPerDay + (TicksPerDay - 1)

\* dt.timedelta(days=n)
TimedeltaDays(n) == n * TicksPerDay

\* the values of the items of dict d whose key re.search finds in the title,
\* in the order of the dict
RECURSIVE MatchingValues(_, _, _)
MatchingValues(d, title, i) ==
    IF i > Len(d) THEN <<>>
    ELSE (IF re_search(d[i].k, title) THEN <<d[i].v>> ELSE <<>>)
         \o MatchingValues(d, title, i + 1)

\* lines 243-253
ApplicableMaxAges(rules, feed_id, feed_title) ==
    <<rules.default_max_age>>
    \o (IF DictHas(rules.feed_rules, feed_id)
        THEN <<DictGet(rules.feed_rules, feed_id)>> ELSE <<>>)
    \o (IF Truthy(feed_title)
        THEN MatchingValues(rules.title_regex_rules, Val(feed_title), 1) ELSE <<>>)

\* lines 265-275
ApplicableKeepNs(rules, feed_id, feed_title) ==
    (IF DictHas(rules.keep_n_rules, feed_id)
     THEN <<DictGet(rules.keep_n_rules, feed_id)>> ELSE <<>>)
    \o (IF Truthy(feed_title)
        THEN MatchingValues(rules.title_regex_keep_n_rules, Val(feed_title), 1)
        ELSE <<>>)

NotOnlyFeedInverted(rules, feed_id) ==
    ~IsNone(rules.only_feed_id) /\ feed_id = Val(rules.only_feed_id)

\* lines 258 and 280
NotOnlyFeed(rules, feed_id) ==
    ~IsNone(rules.only_feed_id) /\ feed_id # Val(rules.only_feed_id)

\* lines 241-260
max_age(rules, feed_id, feed_title) ==
    LET retv == PyMin(ApplicableMaxAges(rules, feed_id, feed_title))
    IN  IF NotOnlyFeed(rules, feed_id) THEN TimedeltaMax ELSE TimedeltaDays(retv)

\* lines 262-282
keep_n(rules, feed_id, feed_title) ==
    LET applicable_keep_ns == ApplicableKeepNs(rules, feed_id, feed_title)
        retv == IF Len(applicable_keep_ns) > 0
                THEN Some(PyMin(applicable_keep_ns)) ELSE None
    IN  IF NotOnlyFeed(rules, feed_id) THEN None ELSE retv

\* lines 284-296
uses_keep_n(rules, feed_id, feed_title) ==
    IF DictHas(rules.keep_n_rules, feed_id) THEN TRUE
    ELSE IF Truthy(feed_title)
            /\ \E i \in 1..Len(rules.title_regex_keep_n_rules) :
                   re_search(rules.title_regex_keep_n_rules[i].k, Val(feed_title))
         THEN TRUE
    ELSE FALSE

\* lines 298-311
uses_max_age(rules, feed_id, feed_title) ==
    IF DictHas(rules.feed_rules, feed_id) THEN TRUE
    ELSE IF Truthy(feed_title)
            /\ \E i \in 1..Len(rules.title_regex_rules) :
                   re_search(rules.title_regex_rules[i].k, Val(feed_title))
         THEN TRUE
    ELSE ~uses_keep_n(rules, feed_id, feed_title)

---------------------------------------------------------------------------
(* Rules.validate_rules.  `subscribed` is the list of the feed_id fields   *)
(* of the subscriptions handed in.                                         *)

AllFeedIdsOfRules(rules) ==
    DictKeys(rules.feed_rules) \o DictKeys(rules.keep_n_rules)

\* lines 314-316
AllFeedIds(rules) ==
    DictKeys(rules.feed_rules) \o DictKeys(rules.keep_n_rules)
    \o (IF ~IsNone(rules.only_feed_id) THEN <<Val(rules.only_feed_id)>> ELSE <<>>)

\* line 318: `matches` is empty
NoMatches(subscribed, feed_id) ==
    ~\E j \in 1..Len(subscribed) : subscribed[j] = feed_id

\* lines 317-323: the feed ids the exception names (none: no exception); the
\* loop raises at the first feed id without a match
RECURSIVE ValidateLoop(_, _, _)
ValidateLoop(all_feed_ids, subscribed, i) ==
    IF i > Len(all_feed_ids) THEN <<>>
    ELSE IF NoMatches(subscribed, all_feed_ids[i]) THEN <<all_feed_ids[i]>>
    ELSE ValidateLoop(all_feed_ids, subscribed, i + 1)

validate_rules(subscribed) ==
    LET named == ValidateLoop(AllFeedIds(self), subscribed, 1)
    IN  /\ raised' = IF Len(named) > 0 THEN "ValidationException" ELSE "none"
        /\ raised_ids' = named
        /\ feeds' = subscribed
        /\ pc' = "validate_rules"
        /\ UNCHANGED <<store_vars, rules_dict, archive_vars>>

---------------------------------------------------------------------------
(* run_archive.  An entry is [id, feed_id, published], published being the *)
(* parsed date in ticks.                                                   *)

\* line 348: list.sort(key=parsed_date, reverse=True) is stable: an entry goes
\* behind every entry that is as new or newer and came before it
InsertNewestFirst(sorted, e) ==
    LET ahead == Cardinality({i \in 1..Len(sorted) : sorted[i].published >= e.published})
    IN  SubSeq(sorted, 1, ahead) \o <<e>> \o SubSeq(sorted, ahead + 1, Len(sorted))

RECURSIVE SortNewestFirst(_, _, _)
SortNewestFirst(list, i, sorted) ==
    IF i > Len(list) THEN sorted
    ELSE SortNewestFirst(list, i + 1, InsertNewestFirst(sorted, list[i]))

\* line 352
UniqueFeedIds(list) == {list[i].feed_id : i \in 1..Len(list)}

ExceedsMaxAgeInDays(entry_age, age_limit) ==
    entry_age \div TicksPerDay > age_limit \div TicksPerDay

\* line 380
ExceedsMaxAge(entry_age, age_limit) == entry_age > age_limit

ExceedsKeepNOffByOne(n, seen) == ~IsNone(n) /\ seen >= Val(n)

\* line 372
ExceedsKeepN(n, seen) == ~IsNone(n) /\ seen > Val(n)

\* lines 361-390: one iteration of the loop over the sorted entries; feed_counts
\* maps a feed id to feed_counts.get(feed_id, 0)
LoopBody(rules, entry, titles, t, feed_counts) ==
    LET feed_id == entry.feed_id
        entry_age == t - entry.published
        feed_title == Some(titles[feed_id])
        counted == uses_keep_n(rules, feed_id, feed_title)
        counts == IF counted
                  THEN [feed_counts EXCEPT ![feed_id] = @ + 1] ELSE feed_counts
        by_keep_n == counted
                     /\ ExceedsKeepN(keep_n(rules, feed_id, feed_title), counts[feed_id])
        by_max_age == uses_max_age(rules, feed_id, feed_title)
                      /\ ExceedsMaxAge(entry_age, max_age(rules, feed_id, feed_title))
    IN  [feed_counts |-> counts,
         decision |-> [id |-> entry.id, feed_id |-> feed_id,
                       published |-> entry.published,
                       counted |-> counted, seen |-> counts[feed_id],
                       by_keep_n |-> by_keep_n, by_max_age |-> by_max_age,
                       should_archive |-> by_keep_n \/ by_max_age]]

\* lines 357-407: the decisions of the loop, in the order of the traversal
RECURSIVE ArchiveLoop(_, _, _, _, _, _, _)
ArchiveLoop(rules, sorted, titles, t, i, feed_counts, acc) ==
    IF i > Len(sorted) THEN acc
    ELSE LET step == LoopBody(rules, sorted[i], titles, t, feed_counts)
         IN  ArchiveLoop(rules, sorted, titles, t, i + 1, step.feed_counts,
                         Append(acc, step.decision))

Decide(rules, list, titles, t) ==
    ArchiveLoop(rules, SortNewestFirst(list, 1, <<>>), titles, t, 1,
                [f \in UniqueFeedIds(list) |-> 0], <<>>)

\* the ids of the entries decided "archive", in the order of the traversal
RECURSIVE ArchivedIds(_, _)
ArchivedIds(ds, i) ==
    IF i > Len(ds) THEN <<>>
    ELSE (IF ds[i].should_archive THEN <<ds[i].id>> ELSE <<>>) \o ArchivedIds(ds, i + 1)

MarkReadCallsAlways(archived, dry) == archived

\* lines 405-406: if not dry_run: feedbin_api.mark_read(entry["id"])
MarkReadCalls(archived, dry) == IF dry THEN <<>> ELSE archived

\* lines 337-410
run_archive(list, titles, t, dry) ==
    LET ds == Decide(self, list, titles, t)
        archived == ArchivedIds(ds, 1)
    IN  /\ unread_entries' = list
        /\ feeds_by_id' = titles
        /\ now' = t
        /\ dry_run' = dry
        /\ decisions' = ds
        /\ marked' = MarkReadCalls(archived, dry)
        /\ count' = Len(archived)
        /\ raised' = "none"
        /\ pc' = "run_archive"
        /\ UNCHANGED <<store_vars, rules_dict, raised_ids, feeds>>

\* A request of run_archive that the service answers with an error status
\* (_check_response, lines 87-98): get_unread_entries (line 343), get_feed for
\* one of the feeds, those of got being fetched before it (lines 353-354), or
\* the k-th mark_read (line 406)
Faults(list, archived, dry) ==
    {[at |-> "get_unread_entries", k |-> 0, got |-> {}]}
    \cup {[at |-> "get_feed", k |-> 0, got |-> S] :
              S \in (SUBSET UniqueFeedIds(list)) \ {UniqueFeedIds(list)}}
    \cup {[at |-> "mark_read", k |-> k, got |-> UniqueFeedIds(list)] :
              k \in 1..Len(MarkReadCalls(archived, dry))}

\* the iterations the loop has run when the k-th entry is archived
RECURSIVE ThroughArchived(_, _, _)
ThroughArchived(ds, k, i) ==
    IF k = 0 \/ i > Len(ds) THEN <<>>
    ELSE <<ds[i]>> \o ThroughArchived(ds, IF ds[i].should_archive THEN k - 1 ELSE k, i + 1)

\* lines 337-410, the APIException of the request leaving run_archive: the
\* failing mark_read has been called, its count += 1 (line 407) has not run
run_archive_raising(list, titles, t, dry, fault) ==
    LET ds == Decide(self, list, titles, t)
        archived == ArchivedIds(ds, 1)
        fetched == fault.at # "get_unread_entries"
        looping == fault.at = "mark_read"
    IN  /\ fault \in Faults(list, archived, dry)
        /\ unread_entries' = IF fetched THEN list ELSE <<>>
        /\ feeds_by_id' = [f \in fault.got |-> titles[f]]
        /\ now' = t
        /\ dry_run' = dry
        /\ decisions' = IF looping THEN ThroughArchived(ds, fault.k, 1) ELSE <<>>
        /\ marked' = IF looping THEN SubSeq(archived, 1, fault.k) ELSE <<>>
        /\ count' = IF looping THEN fault.k - 1 ELSE 0
        /\ raised' = "APIException"
        /\ pc' = "run_archive"
        /\ UNCHANGED <<store_vars, rules_dict, raised_ids, feeds>>

---------------------------------------------------------------------------
(* Inputs                                                                  *)

MaxEntries == 3

FeedIds == {1, 2}
Titles == {<<>>, <<"a">>}
CtorMaxAges == {2}
OnlyFeedIds == {None, Some(1)}

\* now, and the publish dates: 2.5 days and 1 day before now
Nows == {6}
PublishedTicks == {1, 4}

Batches ==
    UNION {{[i \in 1..n |-> [id |-> i, feed_id |-> f[i][1], published |-> f[i][2]]] :
                f \in [1..n -> FeedIds \X PublishedTicks]} : n \in 0..MaxEntries}

Subscriptions == {<<>>, <<1>>, <<2>>, <<1, 2>>}

\* rule files that are well typed: every threshold is a number
MaxAgeValues == {Absent, IntV(1)}
KeepNValues == {Absent, IntV(0), IntV(1)}
FeedRuleEntries ==
    [feed_id : {IntV(f) : f \in FeedIds}, max_age : MaxAgeValues, keep_n : KeepNValues]
TitleRuleEntries ==
    [title_regex : {Some(<<>>), Some(<<"a">>)}, max_age : MaxAgeValues,
     keep_n : KeepNValues]
RuleFiles ==
    [max_age : {Absent},
     feed_specific : {None} \cup {Some(<<r>>) : r \in FeedRuleEntries},
     title_regex : {None} \cup {Some(<<r>>) : r \in TitleRuleEntries}]

\* rule files with malformed parts: missing keys, values that are no numbers,
\* negative numbers, a pattern that does not compile
RawThresholds == {Absent, IntV(-1), IntV(0), IntV(1), Bad}
RawFeedRuleEntries ==
    [feed_id : {Absent, IntV(1), IntV(2), Bad}, max_age : RawThresholds,
     keep_n : RawThresholds]
RawTitleRuleEntries ==
    [title_regex : {None, Some(<<>>), Some(<<"a">>), Some(<<"[">>)},
     max_age : RawThresholds, keep_n : RawThresholds]
RawRuleFiles ==
    [max_age : RawThresholds,
     feed_specific : {None, Some(<<>>)} \cup {Some(<<r>>) : r \in RawFeedRuleEntries},
     title_regex : {None, Some(<<>>)} \cup {Some(<<r>>) : r \in RawTitleRuleEntries}]

---------------------------------------------------------------------------
(* Specifications                                                          *)

\* lines 163-169: Rules(max_age, only_feed_id)
Init ==
    /\ default_max_age \in CtorMaxAges
    /\ only_feed_id \in OnlyFeedIds
    /\ feed_rules = <<>>
    /\ keep_n_rules = <<>>
    /\ title_regex_rules = <<>>
    /\ title_regex_keep_n_rules = <<>>
    /\ pc = "init"
    /\ rules_dict = None
    /\ raised = "none"
    /\ raised_ids = <<>>
    /\ feeds = <<>>
    /\ unread_entries = <<>>
    /\ feeds_by_id = <<>>
    /\ now = 0
    /\ dry_run = TRUE
    /\ decisions = <<>>
    /\ marked = <<>>
    /\ count = 0
    /\ exit_code = None
    /\ ignore_rules_validation = TRUE
    /\ calls = <<>>

\* the caller's record of a call: its name and, for add_rules, the rule file
Called(op, file) == calls' = Append(calls, [op |-> op, file |-> file])

\* a rule file is loaded into the freshly constructed store
AddRulesStep ==
    /\ pc = "init"
    /\ \E d \in RuleFiles : add_rules(d) /\ Called("add_rules", Some(d))
    /\ UNCHANGED main_vars

\* the rules are validated against a subscription list
ValidateRulesStep ==
    /\ pc \in {"init", "add_rules"}
    /\ raised = "none"
    /\ \E subscribed \in Subscriptions : validate_rules(subscribed)
    /\ Called("validate_rules", None)
    /\ UNCHANGED main_vars

\* the unread entries are archived under the rules
RunArchiveStep ==
    /\ pc \in {"init", "add_rules"}
    /\ raised = "none"
    /\ \E list \in Batches, t \in Nows, dry \in BOOLEAN :
        \E titles \in [UniqueFeedIds(list) -> Titles] :
            run_archive(list, titles, t, dry)
    /\ Called("run_archive", None)
    /\ UNCHANGED main_vars

Next == AddRulesStep \/ ValidateRulesStep \/ RunArchiveStep

Spec == Init /\ [][Next]_vars

\* a rule file with malformed parts is loaded
AddRawRulesStep ==
    /\ pc = "init"
    /\ \E d \in RawRuleFiles : add_rules(d) /\ Called("add_rules", Some(d))
    /\ UNCHANGED main_vars

\* the rules are validated, whatever the load ended with
ValidateLoadedStep ==
    /\ pc = "add_rules"
    /\ \E subscribed \in Subscriptions : validate_rules(subscribed)
    /\ Called("validate_rules", None)
    /\ UNCHANGED main_vars

NextLoad == AddRawRulesStep \/ ValidateLoadedStep

SpecLoad == Init /\ [][NextLoad]_vars

\* a listing run (dry_run, the default) over a short batch
MaxListed == 2

ListedBatches == {list \in Batches : Len(list) <= MaxListed}

ListArchiveStep ==
    /\ pc \in {"init", "add_rules"}
    /\ raised = "none"
    /\ \E list \in ListedBatches, t \in Nows :
        \E titles \in [UniqueFeedIds(list) -> Titles] :
            run_archive(list, titles, t, TRUE)
    /\ Called("run_archive", None)
    /\ UNCHANGED main_vars

NextCompose == AddRulesStep \/ ListArchiveStep

SpecCompose == Init /\ [][NextCompose]_vars

\* The "run" action of the program, lines 474-495.  The rule files --rules-file
\* may name: one feed rule each, among them one without a threshold and
\* one whose max_age is no number
MainFeedRules ==
    [feed_id : {IntV(f) : f \in FeedIds}, max_age : {Absent, IntV(1), Bad},
     keep_n : {Absent, IntV(1)}]
MainRuleFiles ==
    [max_age : {Absent}, feed_specific : {Some(<<r>>) : r \in MainFeedRules},
     title_regex : {None}]

\* an exception that nothing catches ends the interpreter with status 1
ExitUncaught == Some(1)

\* lines 478-482: SpecException is caught for sys.exit(1); ValueError is not caught
ExitAfterAddRules(exc) ==
    IF exc = "none" THEN None
    ELSE IF exc = "SpecException" THEN Some(1)
    ELSE ExitUncaught

ExitAfterValidationAlways(exc, ignore) ==
    IF exc = "ValidationException" THEN Some(2) ELSE None

\* lines 486-488
ExitAfterValidation(exc, ignore) ==
    IF exc = "ValidationException" /\ ~ignore THEN Some(2) ELSE None

\* lines 491-495
ExitAfterRunArchive(exc) == IF exc = "APIException" THEN Some(3) ELSE Some(0)

\* lines 476-482: --rules-file is given, add_rules loads the file
MainAddRules ==
    /\ pc = "init"
    /\ exit_code = None
    /\ \E d \in MainRuleFiles :
        /\ add_rules(d)
        /\ Called("add_rules", Some(d))
        /\ exit_code' = ExitAfterAddRules(AddRulesResult(self, d).exc)
    /\ UNCHANGED ignore_rules_validation

\* lines 483-488: the subscriptions are fetched and the rules validated against
\* them; an APIException of get_subscriptions is not caught
MainValidateRules ==
    /\ pc \in {"init", "add_rules"}
    /\ exit_code = None
    /\ \/ \E subscribed \in Subscriptions, ignore \in BOOLEAN :
            /\ validate_rules(subscribed)
            /\ calls' = calls \o <<[op |-> "get_subscriptions", file |-> None],
                                   [op |-> "validate_rules", file |-> None]>>
            /\ ignore_rules_validation' = ignore
            /\ exit_code' = ExitAfterValidation(
                                IF Len(ValidateLoop(AllFeedIds(self), subscribed, 1)) > 0
                                THEN "ValidationException" ELSE "none", ignore)
       \/ /\ pc' = "get_subscriptions"
          /\ raised' = "APIException"
          /\ Called("get_subscriptions", None)
          /\ exit_code' = ExitUncaught
          /\ UNCHANGED <<store_vars, rules_dict, raised_ids, feeds, archive_vars,
                         ignore_rules_validation>>

\* lines 489-495: run_archive, to its end or to the APIException of a request
MainRunArchive ==
    /\ pc = "validate_rules"
    /\ exit_code = None
    /\ \E list \in ListedBatches, t \in Nows, dry \in BOOLEAN :
        \E titles \in [UniqueFeedIds(list) -> Titles] :
            \/ /\ run_archive(list, titles, t, dry)
               /\ exit_code' = ExitAfterRunArchive("none")
            \/ \E fault \in Faults(list, ArchivedIds(Decide(self, list, titles, t), 1), dry) :
                  /\ run_archive_raising(list, titles, t, dry, fault)
                  /\ exit_code' = ExitAfterRunArchive("APIException")
    /\ Called("run_archive", None)
    /\ UNCHANGED ignore_rules_validation

NextMain == MainAddRules \/ MainValidateRules \/ MainRunArchive

SpecMain == Init /\ [][NextMain]_vars

\* Several rule files loaded into one store, one add_rules call after the
\* other while no call has raised.
MaxLoads == 2

MergeThresholds ==
    {[max_age |-> IntV(1), keep_n |-> Absent], [max_age |-> IntV(3), keep_n |-> Absent],
     [max_age |-> Absent, keep_n |-> IntV(1)], [max_age |-> IntV(3), keep_n |-> IntV(0)]}
MergeFeedRule(f, th) == [feed_id |-> IntV(f), max_age |-> th.max_age, keep_n |-> th.keep_n]
MergeTitleRule(p, th) == [title_regex |-> Some(p), max_age |-> th.max_age, keep_n |-> th.keep_n]

\* one feed rule; two rules for one feed; a rule without a threshold, which
\* raises after the global max_age is stored; one title rule
MergeFeedLists ==
    {<<MergeFeedRule(f, th)>> : f \in FeedIds, th \in MergeThresholds}
    \cup {<<MergeFeedRule(1, [max_age |-> IntV(1), keep_n |-> IntV(1)]),
             MergeFeedRule(1, [max_age |-> IntV(3), keep_n |-> Absent])>>,
           <<MergeFeedRule(2, [max_age |-> Absent, keep_n |-> Absent])>>}
MergeTitleLists ==
    {<<MergeTitleRule(p, th)>> :
        p \in {<<>>, <<"a">>},
        th \in {[max_age |-> IntV(1), keep_n |-> Absent],
                 [max_age |-> Absent, keep_n |-> IntV(1)]}}
MergeRuleFiles ==
    [max_age : {Absent, IntV(1), IntV(3)},
     feed_specific : {Some(l) : l \in MergeFeedLists}, title_regex : {None}]
    \cup [max_age : {Absent, IntV(1), IntV(3)},
          feed_specific : {None}, title_regex : {Some(l) : l \in MergeTitleLists}]

AddMoreRulesStep ==
    /\ pc \in {"init", "add_rules"}
    /\ raised = "none"
    /\ Len(calls) < MaxLoads
    /\ \E d \in MergeRuleFiles : add_rules(d) /\ Called("add_rules", Some(d))
    /\ UNCHANGED main_vars

NextMerge == AddMoreRulesStep

SpecMerge == Init /\ [][NextMerge]_vars

---------------------------------------------------------------------------
(* The rule families as the specification states them: sets of thresholds, *)
(* a pattern applying to a title when re.search finds it there.            *)

QueryTitles == {<<>>, <<"a">>, <<"b">>, <<"a", "b">>}

SetMin(S) == CHOOSE x \in S : \A y \in S : x <= y

FeedSpecific(d, feed_id) == {d[i].v : i \in {j \in 1..Len(d) : d[j].k = feed_id}}
TitleMatching(d, title) == {d[i].v : i \in {j \in 1..Len(d) : re_search(d[j].k, title)}}

MaxAgeSet(feed_id, title) ==
    {default_max_age} \cup FeedSpecific(feed_rules, feed_id)
    \cup TitleMatching(title_regex_rules, title)

KeepNSet(feed_id, title) ==
    FeedSpecific(keep_n_rules, feed_id) \cup TitleMatching(title_regex_keep_n_rules, title)

HasMaxAgeRule(feed_id, title) ==
    FeedSpecific(feed_rules, feed_id) \cup TitleMatching(title_regex_rules, title) # {}

Excluded(feed_id) == only_feed_id # None /\ only_feed_id # Some(feed_id)

\* C1 (as stated): for every store reached by construction and a successful
\* add_rules, every feed the single-feed restriction does not exclude and every
\* feed title, max_age is the minimum of the default, the feed-specific max-age
\* and the max-ages of the title patterns that match the title.
C1_MaxAgeIsMinimum ==
    raised = "none" =>
        \A f \in FeedIds, title \in QueryTitles :
            ~Excluded(f) =>
                max_age(self, f, Some(title)) = TimedeltaDays(SetMin(MaxAgeSet(f, title)))

\* C2 (as stated): for every feed the single-feed restriction does not exclude
\* and every feed title, keep_n is the minimum of the feed-specific keep-n and
\* the keep-ns of the matching title patterns, and None when there is none.
C2_KeepNIsMinimumOrNone ==
    raised = "none" =>
        \A f \in FeedIds, title \in QueryTitles :
            ~Excluded(f) =>
                keep_n(self, f, Some(title)) =
                    IF KeepNSet(f, title) = {} THEN None
                    ELSE Some(SetMin(KeepNSet(f, title)))

\* C4 (as stated): uses_keep_n is true iff a feed-specific or matching
\* title-pattern keep-n rule exists, uses_max_age iff no such keep-n rule exists
\* or a feed-specific or matching title-pattern max-age rule does; so one of the
\* two holds for every feed.
C4_UsesPredicates ==
    raised = "none" =>
        \A f \in FeedIds, title \in QueryTitles :
            /\ uses_keep_n(self, f, Some(title)) <=> KeepNSet(f, title) # {}
            /\ uses_max_age(self, f, Some(title))
                   <=> (KeepNSet(f, title) = {} \/ HasMaxAgeRule(f, title))
            /\ uses_keep_n(self, f, Some(title)) \/ uses_max_age(self, f, Some(title))

---------------------------------------------------------------------------
(* run_archive's batch, read back from the state it leaves                 *)

Archived == pc = "run_archive"

TitleOf(f) == Some(feeds_by_id[f])
EffectiveKeepN(f) == keep_n(self, f, TitleOf(f))
EffectiveMaxAge(f) == max_age(self, f, TitleOf(f))
AgeOf(d) == now - d.published

\* the position of the i-th traversed entry among the entries of its feed
RankInFeed(i) ==
    Cardinality({j \in 1..i : decisions[j].feed_id = decisions[i].feed_id})

OfFeed(f) == {i \in 1..Len(decisions) : decisions[i].feed_id = f}
KeptOfFeed(f) == {i \in OfFeed(f) : ~decisions[i].should_archive}

Min(a, b) == IF a < b THEN a ELSE b

\* the traversal visits every unread entry once, newest first
TraversedNewestFirst ==
    /\ Len(decisions) = Len(unread_entries)
    /\ \A e \in 1..Len(unread_entries) :
           \E i \in 1..Len(decisions) :
               /\ decisions[i].id = unread_entries[e].id
               /\ decisions[i].feed_id = unread_entries[e].feed_id
               /\ decisions[i].published = unread_entries[e].published
    /\ \A i, j \in 1..Len(decisions) :
           i < j => decisions[i].published >= decisions[j].published

\* C3: with a single-feed restriction, every other feed has max_age
\* timedelta.max and keep_n None whatever rules match it, and run_archive keeps
\* each of its entries: neither trigger fires.
C3_ExcludedFeedsAreKept ==
    \A f \in FeedIds :
        Excluded(f) =>
            /\ \A title \in {None} \cup {Some(t) : t \in QueryTitles} :
                   /\ max_age(self, f, title) = TimedeltaMax
                   /\ keep_n(self, f, title) = None
            /\ \A i \in OfFeed(f) :
                   /\ AgeOf(decisions[i]) <= TimedeltaMax
                   /\ ~decisions[i].by_keep_n
                   /\ ~decisions[i].by_max_age
                   /\ ~decisions[i].should_archive

\* an entry of an excluded feed is kept although a feed-specific max-age rule
\* it is older than and a matching title-pattern keep-n of 0 are loaded
C3_Witness ==
    /\ Archived
    /\ only_feed_id = Some(1)
    /\ \E i \in 1..Len(decisions) :
           /\ decisions[i].feed_id = 2
           /\ DictHas(feed_rules, 2)
           /\ AgeOf(decisions[i]) > TimedeltaDays(DictGet(feed_rules, 2))
           /\ uses_keep_n(self, 2, TitleOf(2))
           /\ KeepNSet(2, feeds_by_id[2]) = {0}
           /\ ~decisions[i].should_archive

\* C5: the batch is traversed newest first, and the k-th entry of a feed whose
\* keep_n is N is archived by the keep-n trigger iff k > N; where only keep-n
\* applies to the feed, the min(N, number of entries) most recently published
\* entries of the feed are kept and the older ones archived, however the entries
\* of other feeds are interleaved.
C5_KeepNMostRecent ==
    Archived =>
        /\ TraversedNewestFirst
        /\ \A i \in 1..Len(decisions) :
               LET n == EffectiveKeepN(decisions[i].feed_id)
               IN  decisions[i].by_keep_n <=> (n # None /\ RankInFeed(i) > Val(n))
        /\ \A f \in DOMAIN feeds_by_id :
               LET n == EffectiveKeepN(f)
               IN  (n # None /\ Val(n) >= 0 /\ ~uses_max_age(self, f, TitleOf(f))) =>
                       /\ Cardinality(KeptOfFeed(f)) = Min(Val(n), Cardinality(OfFeed(f)))
                       /\ \A i \in KeptOfFeed(f), j \in OfFeed(f) \ KeptOfFeed(f) :
                              /\ i < j
                              /\ decisions[i].published >= decisions[j].published

\* feed 1 keeps one entry: of its two entries, traversed with an entry of feed
\* 2 between them, the newer is kept and the older archived by keep-n
C5_Witness ==
    /\ Archived
    /\ Len(decisions) = 3
    /\ decisions[1].feed_id = 1 /\ decisions[2].feed_id = 2 /\ decisions[3].feed_id = 1
    /\ EffectiveKeepN(1) = Some(1)
    /\ ~uses_max_age(self, 1, TitleOf(1))
    /\ ~decisions[1].should_archive
    /\ decisions[3].by_keep_n /\ decisions[3].should_archive

\* C6: an entry of a feed that no keep-n rule applies to and that is not
\* excluded is archived iff its age is strictly above the feed's max_age: at the
\* threshold it is kept, above it never.
C6_MaxAgeStrict ==
    Archived =>
        \A i \in 1..Len(decisions) :
            LET f == decisions[i].feed_id
            IN  (~uses_keep_n(self, f, TitleOf(f)) /\ ~Excluded(f)) =>
                    /\ decisions[i].should_archive
                           <=> AgeOf(decisions[i]) > EffectiveMaxAge(f)
                    /\ EffectiveMaxAge(f) =
                           TimedeltaDays(SetMin(
                               IF feeds_by_id[f] # <<>> THEN MaxAgeSet(f, feeds_by_id[f])
                               ELSE {default_max_age} \cup FeedSpecific(feed_rules, f)))

\* two entries of such a feed: one exactly as old as the max_age, kept, and one
\* older by less than a day than the default max_age of another feed, archived
C6_Witness ==
    /\ Archived
    /\ \E i, j \in 1..Len(decisions) :
           LET f == decisions[i].feed_id
               g == decisions[j].feed_id
           IN  /\ ~uses_keep_n(self, f, TitleOf(f)) /\ ~Excluded(f)
               /\ AgeOf(decisions[i]) = EffectiveMaxAge(f)
               /\ ~decisions[i].should_archive
               /\ ~uses_keep_n(self, g, TitleOf(g)) /\ ~Excluded(g)
               /\ EffectiveMaxAge(g) = TimedeltaDays(default_max_age)
               /\ AgeOf(decisions[j]) > EffectiveMaxAge(g)
               /\ AgeOf(decisions[j]) < EffectiveMaxAge(g) + TicksPerDay
               /\ decisions[j].should_archive

---------------------------------------------------------------------------
(* The rule file of the last add_rules call, and what is wrong with it     *)

Loaded == pc = "add_rules"

File == Val(rules_dict)
ListOf(o) == IF IsNone(o) THEN <<>> ELSE Val(o)
Elements(list) == {list[i] : i \in 1..Len(list)}
FeedEntriesOf(d) == Elements(ListOf(d.feed_specific))
TitleEntriesOf(d) == Elements(ListOf(d.title_regex))

NoFeedId(d) == \E r \in FeedEntriesOf(d) : ~Has(r.feed_id)
NoThreshold(d) ==
    \E r \in FeedEntriesOf(d) \cup TitleEntriesOf(d) : ~Has(r.max_age) /\ ~Has(r.keep_n)
PatternNotCompiling(d) ==
    \E r \in TitleEntriesOf(d) :
        ~IsNone(r.title_regex) /\ re_compile_raises(Val(r.title_regex))
NoRuleFamily(d) == IsNone(d.feed_specific) /\ IsNone(d.title_regex)
NoPattern(d) == \E r \in TitleEntriesOf(d) : IsNone(r.title_regex)

StatedDefect(d) ==
    NoFeedId(d) \/ NoThreshold(d) \/ PatternNotCompiling(d) \/ NoRuleFamily(d)

\* every max_age, keep_n and feed_id of the file is a number
AllNumbers(d) ==
    /\ d.max_age # Bad
    /\ \A r \in FeedEntriesOf(d) : r.feed_id # Bad /\ r.max_age # Bad /\ r.keep_n # Bad
    /\ \A r \in TitleEntriesOf(d) : r.max_age # Bad /\ r.keep_n # Bad

StoredThresholds ==
    {default_max_age}
    \cup {feed_rules[i].v : i \in 1..Len(feed_rules)}
    \cup {keep_n_rules[i].v : i \in 1..Len(keep_n_rules)}
    \cup {title_regex_rules[i].v : i \in 1..Len(title_regex_rules)}
    \cup {title_regex_keep_n_rules[i].v : i \in 1..Len(title_regex_keep_n_rules)}

\* C8 (as stated): after any add_rules calls every threshold the store holds is
\* a non-negative integer; a negative threshold in the file is rejected by
\* add_rules.
C8_ThresholdsNonNegative ==
    /\ \A x \in StoredThresholds : x \in Nat
    /\ Loaded =>
           ((\E r \in FeedEntriesOf(File) \cup TitleEntriesOf(File) :
                 \/ (r.max_age.t = "int" /\ r.max_age.v < 0)
                 \/ (r.keep_n.t = "int" /\ r.keep_n.v < 0))
            => raised # "none")

---------------------------------------------------------------------------
(* validate_rules                                                          *)

Validated == pc = "validate_rules"

ReferencedFeedIds ==
    {feed_rules[i].k : i \in 1..Len(feed_rules)}
    \cup {keep_n_rules[i].k : i \in 1..Len(keep_n_rules)}
    \cup (IF only_feed_id = None THEN {} ELSE {Val(only_feed_id)})

MissingFeedIds == ReferencedFeedIds \ Elements(feeds)

\* the referenced feed ids in the order validate_rules goes through them
ReferencedInOrder ==
    [i \in 1..Len(feed_rules) |-> feed_rules[i].k]
    \o [i \in 1..Len(keep_n_rules) |-> keep_n_rules[i].k]
    \o (IF only_feed_id = None THEN <<>> ELSE only_feed_id)

FirstMissing ==
    LET at == CHOOSE i \in 1..Len(ReferencedInOrder) :
                  /\ ReferencedInOrder[i] \in MissingFeedIds
                  /\ \A j \in 1..(i - 1) : ReferencedInOrder[j] \notin MissingFeedIds
    IN  ReferencedInOrder[at]

\* C9 (as stated): validate_rules raises ValidationException iff a feed id of
\* a feed-specific max-age or keep-n rule or of the single-feed restriction is
\* not subscribed, the exception names every such feed id, and the store is left
\* as it was.
C9_NamesEveryMissingFeed ==
    [][Validated' =>
          /\ (raised' = "ValidationException") <=> (MissingFeedIds' # {})
          /\ Elements(raised_ids') = MissingFeedIds'
          /\ UNCHANGED store_vars]_vars

\* C9 (amended): ... the exception names one feed id, the first missing one in
\* the order feed-specific max-age rules, feed-specific keep-n rules,
\* single-feed restriction; the store is left as it was.
C9_NamesFirstMissingFeed ==
    [][Validated' =>
          /\ (raised' = "ValidationException") <=> (MissingFeedIds' # {})
          /\ raised_ids' = IF MissingFeedIds' = {} THEN <<>> ELSE <<FirstMissing'>>
          /\ UNCHANGED store_vars]_vars

\* two referenced feeds are not subscribed, the one of the single-feed
\* restriction among them: the exception names the first only
C9_Witness ==
    /\ Validated
    /\ raised = "ValidationException"
    /\ Cardinality(MissingFeedIds) = 2
    /\ only_feed_id # None /\ Val(only_feed_id) \in MissingFeedIds
    /\ raised_ids = <<FirstMissing>>
    /\ raised_ids # only_feed_id

---------------------------------------------------------------------------
(* One more rule                                                           *)

AddedThresholds == {Absent, IntV(0), IntV(1)}
AddedFeedRules ==
    {r \in [feed_id : {IntV(f) : f \in FeedIds}, max_age : AddedThresholds,
            keep_n : AddedThresholds] : Has(r.max_age) \/ Has(r.keep_n)}
AddedTitleRules ==
    {r \in [title_regex : {Some(<<>>), Some(<<"a">>)}, max_age : AddedThresholds,
            keep_n : AddedThresholds] : Has(r.max_age) \/ Has(r.keep_n)}

FeedRulesFile(list) == [max_age |-> Absent, feed_specific |-> Some(list), title_regex |-> None]
TitleRulesFile(list) == [max_age |-> Absent, feed_specific |-> None, title_regex |-> Some(list)]

\* the key of the rule is in neither of the two mappings the rule may write
NewFeedRule(r) ==
    ~DictHas(feed_rules, PyInt(r.feed_id)) /\ ~DictHas(keep_n_rules, PyInt(r.feed_id))
NewTitleRule(r) ==
    /\ ~DictHas(title_regex_rules, Val(r.title_regex))
    /\ ~DictHas(title_regex_keep_n_rules, Val(r.title_regex))

\* the rule files that add one rule under a new key to the store
OneMoreRule ==
    {FeedRulesFile(<<r>>) : r \in {x \in AddedFeedRules : NewFeedRule(x)}}
    \cup {TitleRulesFile(<<r>>) : r \in {x \in AddedTitleRules : NewTitleRule(x)}}

\* the decisions run_archive takes on the batch of this state under `rules`
DecisionsUnder(rules) == Decide(rules, unread_entries, feeds_by_id, now)

\* rule files with the same two rules of distinct keys, declared in either
\* order, decide the batch alike
OrderIndependent ==
    /\ \A r1, r2 \in AddedFeedRules :
           r1.feed_id # r2.feed_id =>
               DecisionsUnder(AddRulesResult(self, FeedRulesFile(<<r1, r2>>)))
                   = DecisionsUnder(AddRulesResult(self, FeedRulesFile(<<r2, r1>>)))
    /\ \A r1, r2 \in AddedTitleRules :
           r1.title_regex # r2.title_regex =>
               DecisionsUnder(AddRulesResult(self, TitleRulesFile(<<r1, r2>>)))
                   = DecisionsUnder(AddRulesResult(self, TitleRulesFile(<<r2, r1>>)))

\* the rule file of a freshly constructed store is what declares rules in order
FreshStore == rules_dict = None

\* C10 (as stated): adding one more rule never turns an archived entry into a
\* kept one, and the decisions do not depend on the order of declaration.
C10_AddingRulesOnlyShrinks ==
    Archived =>
        /\ \A d \in OneMoreRule :
               \A i \in 1..Len(decisions) :
                   decisions[i].should_archive =>
                       DecisionsUnder(AddRulesResult(self, d))[i].should_archive
        /\ FreshStore => OrderIndependent

\* the feed stops using max-age when the rule file d is added
MaxAgeSwitchedOff(d, f) ==
    /\ uses_max_age(self, f, TitleOf(f))
    /\ ~uses_max_age(AddRulesResult(self, d), f, TitleOf(f))

\* C10 (amended): adding one more rule under a new key never turns an archived
\* entry into a kept one, unless the entry was archived for its age alone and
\* the addition switches max-age off for its feed; that happens only when a
\* keep-n rule without max-age becomes the first keep-n rule to apply to a feed
\* that has no feed-specific max-age rule and, its title not being empty, no
\* matching title-pattern max-age rule.  The decisions do not depend on the
\* order in which rules of distinct keys are declared.
C10_AddingRulesShrinksUnlessMaxAgeOff ==
    Archived =>
        /\ \A d \in OneMoreRule :
               /\ \A i \in 1..Len(decisions) :
                      (/\ decisions[i].should_archive
                       /\ \/ decisions[i].by_keep_n
                          \/ ~MaxAgeSwitchedOff(d, decisions[i].feed_id))
                      => DecisionsUnder(AddRulesResult(self, d))[i].should_archive
               /\ \A f \in DOMAIN feeds_by_id :
                      MaxAgeSwitchedOff(d, f) =>
                          /\ ~uses_keep_n(self, f, TitleOf(f))
                          /\ uses_keep_n(AddRulesResult(self, d), f, TitleOf(f))
                          /\ ~DictHas(feed_rules, f)
                          /\ feeds_by_id[f] # <<>> =>
                                 ~\E i \in 1..Len(title_regex_rules) :
                                      re_search(title_regex_rules[i].k, feeds_by_id[f])
                          /\ \A r \in FeedEntriesOf(d) \cup TitleEntriesOf(d) :
                                  ~Has(r.max_age)
        /\ FreshStore => OrderIndependent

\* feed 1 keeps one entry; a title-pattern keep-n of 0 is added: the archived
\* entry stays archived and the kept one is archived too
C10_Witness ==
    /\ Archived
    /\ Len(decisions) = 2
    /\ decisions[1].feed_id = 1 /\ ~decisions[1].should_archive
    /\ decisions[2].feed_id = 1 /\ decisions[2].should_archive
    /\ EffectiveKeepN(1) = Some(1)
    /\ \E d \in OneMoreRule :
           /\ d.title_regex # None
           /\ DecisionsUnder(AddRulesResult(self, d))[1].should_archive
           /\ DecisionsUnder(AddRulesResult(self, d))[2].should_archive

---------------------------------------------------------------------------
(* The mark_read calls and the count of a run of run_archive.              *)

ArchivedAt == {i \in 1..Len(decisions) : decisions[i].should_archive}
KeptAt == {i \in 1..Len(decisions) : ~decisions[i].should_archive}
MarkedIds == {marked[j] : j \in 1..Len(marked)}

\* the publish date of the entry with the given id
PublishedOf(id) ==
    unread_entries[CHOOSE i \in 1..Len(unread_entries) : unread_entries[i].id = id].published

\* run_archive has printed its count: it ended without an exception
CountReported == pc = "run_archive" /\ raised = "none"

---------------------------------------------------------------------------
(* The "run" action: the order of its steps and the exit codes.            *)

Ops == [i \in 1..Len(calls) |-> calls[i].op]
OpsMade == {calls[i].op : i \in 1..Len(calls)}

IsPrefix(a, b) == Len(a) <= Len(b) /\ SubSeq(b, 1, Len(a)) = a

\* load, validate, evaluate; without --rules-file nothing is loaded
RunOrder == <<"add_rules", "get_subscriptions", "validate_rules", "run_archive">>
InRunOrder == IsPrefix(Ops, RunOrder) \/ IsPrefix(Ops, Tail(RunOrder))

Terminated == exit_code # None

NothingValidated ==
    /\ OpsMade \cap {"get_subscriptions", "validate_rules"} = {}
    /\ feeds = <<>>
    /\ raised_ids = <<>>

NothingEvaluated ==
    /\ "run_archive" \notin OpsMade
    /\ unread_entries = <<>>
    /\ decisions = <<>>
    /\ marked = <<>>

SpecError == pc = "add_rules" /\ raised = "SpecException"
ValidationError == pc = "validate_rules" /\ raised = "ValidationException"

\* C12: the calls of the run action are made in the order add_rules,
\* validate_rules, run_archive, and the program makes no step after it has
\* exited; a SpecException of add_rules exits with 1, nothing validated and
\* nothing evaluated; a ValidationException exits with 2, no entry evaluated or
\* marked read, when validation failures are not ignored, and leaves the
\* program running with run_archive as its next step when they are ignored;
\* an APIException of run_archive exits with 3, its normal end with 0.
C12_RunOrderAndExitCodes ==
    /\ InRunOrder
    /\ Terminated => ~ENABLED NextMain
    /\ SpecError =>
        /\ exit_code = Some(1)
        /\ NothingValidated
        /\ NothingEvaluated
    /\ (ValidationError /\ ~ignore_rules_validation) =>
        /\ exit_code = Some(2)
        /\ NothingEvaluated
    /\ (ValidationError /\ ignore_rules_validation) =>
        /\ ~Terminated
        /\ ENABLED MainRunArchive
    /\ (Archived /\ raised = "APIException") => exit_code = Some(3)
    /\ (Archived /\ raised = "none") => exit_code = Some(0)

\* a run that loads a rule for a feed the user has not subscribed to, ignores
\* the ValidationException and archives to the end
C12_Witness ==
    /\ Ops = RunOrder
    /\ raised_ids # <<>>
    /\ ignore_rules_validation
    /\ CountReported
    /\ ~dry_run
    /\ marked # <<>>
    /\ exit_code = Some(0)

---------------------------------------------------------------------------
(* The store after several add_rules calls.                                *)

Loads == {c \in 1..Len(calls) : calls[c].op = "add_rules"}
LoadedFile(c) == Val(calls[c].file)

\* the rules of a family ("feed_specific", "title_regex") in a file, and the
\* key a rule names
RulesIn(d, family) == ListOf(d[family])
KeyOf(family, r) == IF family = "feed_specific" THEN PyInt(r.feed_id) ELSE Val(r.title_regex)

\* the places, call c and position p in its list, that give a threshold th
\* ("max_age", "keep_n") to a key
Settings(family, th) ==
    UNION {{[c |-> c, p |-> p] :
               p \in {q \in 1..Len(RulesIn(LoadedFile(c), family)) :
                          Has(RulesIn(LoadedFile(c), family)[q][th])}} : c \in Loads}
RuleAt(family, s) == RulesIn(LoadedFile(s.c), family)[s.p]
KeysSet(family, th) == {KeyOf(family, RuleAt(family, s)) : s \in Settings(family, th)}

LastValue(family, th, k) ==
    LET S == {s \in Settings(family, th) : KeyOf(family, RuleAt(family, s)) = k}
        last == CHOOSE s \in S :
                    \A u \in S : s.c > u.c \/ (s.c = u.c /\ s.p >= u.p)
    IN  PyInt(RuleAt(family, last)[th])

\* the mapping holds the keys some call gave the threshold to, each once, with
\* the value of the last call that gave it
Accumulated(mapping, family, th) ==
    /\ {mapping[i].k : i \in 1..Len(mapping)} = KeysSet(family, th)
    /\ Len(mapping) = Cardinality(KeysSet(family, th))
    /\ \A i \in 1..Len(mapping) : mapping[i].v = LastValue(family, th, mapping[i].k)

GlobalLoads == {c \in Loads : Has(LoadedFile(c).max_age)}
LastOf(S) == CHOOSE c \in S : \A e \in S : e <= c

MergedAsLoaded ==
    /\ IF GlobalLoads = {} THEN default_max_age \in CtorMaxAges
       ELSE default_max_age = PyInt(LoadedFile(LastOf(GlobalLoads)).max_age)
    /\ Accumulated(feed_rules, "feed_specific", "max_age")
    /\ Accumulated(keep_n_rules, "feed_specific", "keep_n")
    /\ Accumulated(title_regex_rules, "title_regex", "max_age")
    /\ Accumulated(title_regex_keep_n_rules, "title_regex", "keep_n")

\* the keys a file gives the threshold to
NamedBy(d, family, th) ==
    {KeyOf(family, r) : r \in {x \in Elements(RulesIn(d, family)) : Has(x[th])}}

\* every item under a key that is not named is in the mapping afterwards
Kept(before, after, named) ==
    \A i \in 1..Len(before) :
        before[i].k \notin named =>
            DictHas(after, before[i].k) /\ DictGet(after, before[i].k) = before[i].v

FrameOfLoad(d) ==
    /\ ~Has(d.max_age) => default_max_age' = default_max_age
    /\ Kept(feed_rules, feed_rules', NamedBy(d, "feed_specific", "max_age"))
    /\ Kept(keep_n_rules, keep_n_rules', NamedBy(d, "feed_specific", "keep_n"))
    /\ Kept(title_regex_rules, title_regex_rules', NamedBy(d, "title_regex", "max_age"))
    /\ Kept(title_regex_keep_n_rules, title_regex_keep_n_rules',
            NamedBy(d, "title_regex", "keep_n"))

\* C13: every add_rules call that ends without an exception, all calls before it
\* having done so, leaves the default max-age at the global max_age of the last
\* call that had one (the constructor's value if none had), leaves in each of
\* the four mappings exactly the keys some call set, each with the value of the
\* last call that set it, and neither removes nor changes an item under a key
\* it does not set.
C13_LoadsAccumulate ==
    [][(pc' = "add_rules" /\ raised' = "none") =>
          (MergedAsLoaded' /\ FrameOfLoad(Val(rules_dict')))]_vars

\* two loads: the second replaces the global max_age and the max_age of feed 1
\* and leaves the keep_n of feed 1 as the first set it
C13_Witness ==
    /\ pc = "add_rules"
    /\ raised = "none"
    /\ Len(calls) = 2
    /\ LoadedFile(1) =
         [max_age |-> IntV(1), title_regex |-> None,
          feed_specific |->
              Some(<<MergeFeedRule(1, [max_age |-> IntV(3), keep_n |-> IntV(0)])>>)]
    /\ LoadedFile(2) =
         [max_age |-> IntV(3), title_regex |-> None,
          feed_specific |->
              Some(<<MergeFeedRule(1, [max_age |-> IntV(1), keep_n |-> Absent])>>)]
    /\ default_max_age = 3
    /\ feed_rules = <<[k |-> 1, v |-> 1]>>
    /\ keep_n_rules = <<[k |-> 1, v |-> 0]>>

=============================================================================
